---- MODULE Spec2Model ----
(***************************************************************************)
(* Model of the healthcheck CLI: cmd/root.go (Execute) and cmd/check.go    *)
(* (runCheck, checkEndpoint, printResult).                                 *)
(*                                                                         *)
(* One run of the process is modelled: Execute parses the invocation and   *)
(* either exits 1 or runs runCheck, which builds the endpoint list, spawns *)
(* one goroutine per endpoint (wg.Add(1); go func), waits on the WaitGroup *)
(* and prints the summary line.  Each goroutine runs checkEndpoint (one    *)
(* client.Get bounded by http.Client.Timeout), printResult and the         *)
(* deferred wg.Done.                                                       *)
(*                                                                         *)
(* Time is a discrete clock in seconds (the unit of the --timeout flag).   *)
(* Computation steps take no time; the clock advances only while every     *)
(* runnable goroutine is blocked (in client.Get or in wg.Wait).            *)
(***************************************************************************)
EXTENDS Integers, Sequences, FiniteSets, TLC

VARIABLES
    invocation,  \* "valid" | "invalid": whether cobra accepts the command line
    timeout,     \* flag --timeout (seconds)
    urls,        \* flag --urls
    server,      \* environment: behaviour of the server behind each endpoint
    endpoints,   \* runCheck's local slice of Endpoint
    pcMain,      \* position of the main goroutine
    next,        \* index of the next endpoint the range loop launches
    wg,          \* sync.WaitGroup counter
    runStart,    \* runCheck's start := time.Now()
    pc,          \* position of each probe goroutine
    start,       \* checkEndpoint's start := time.Now(), per goroutine
    resp,        \* what client.Get returned, per goroutine
    ep,          \* the goroutine's argument ep Endpoint, per goroutine
    result,      \* the HealthResult checkEndpoint returned, per goroutine
    printed,     \* result blocks written to stdout, in order
    summary,     \* the summary line written to stdout
    exitCode,    \* process exit code
    now,         \* wall clock
    client,      \* checkEndpoint's client := &http.Client{Timeout: ...}, per goroutine
    gets,        \* number of client.Get calls made, per goroutine
    body,        \* resp.Body of the goroutine's response: "none" | "open" | "closed"
    conn,        \* the connection of the goroutine's request:
                 \* "none" | "open" | "idle" (kept alive in the transport) | "closed"
    stdout,      \* the lines written to stdout by printResult, in order
    line         \* number of lines printResult has written, per goroutine

vars == <<invocation, timeout, urls, server, endpoints, pcMain, next, wg,
          runStart, pc, start, resp, ep, result, printed, summary, exitCode, now,
          client, gets, body, conn, stdout, line>>

----------------------------------------------------------------------------
(* Bounds *)

MaxUrls == 2        \* longest --urls list
MaxTimeout == 2     \* largest --timeout value

(* Program constants *)

DefaultTimeout == 10

----------------------------------------------------------------------------
(* Environment: what the server behind an endpoint does *)

FastLatency == 1    \* seconds a prompt server takes to answer (bound)
SlowLatency == MaxTimeout
MaxTime == MaxTimeout + 1

\* Status codes a response can carry.  net/http accepts any three-digit
\* status line, "000" included.
StatusCodes == {0, 204, 404}
AllStatusCodes == {0, 101, 199, 200, 204, 301, 399, 400, 404, 500, 599}

Responding(s, d) == [kind |-> "respond", status |-> s, latency |-> d, error |-> "nil"]
Failing(e, d) == [kind |-> "fail", status |-> 0, latency |-> d, error |-> e]
Hanging == [kind |-> "hang", status |-> 0, latency |-> 0, error |-> "nil"]

Behaviours ==
    {Responding(s, FastLatency) : s \in StatusCodes}
        \cup {Responding(200, SlowLatency)}
        \cup {Failing("unsupported protocol scheme", 0),
              Failing("connection refused", FastLatency)}
        \cup {Hanging}

WideBehaviours == {Responding(s, FastLatency) : s \in AllStatusCodes}

\* One behaviour of each timing: prompt, slow, failing, never answering.
TimingBehaviours ==
    {Responding(204, FastLatency), Responding(200, SlowLatency),
     Failing("connection refused", FastLatency), Hanging}

UrlOf(b) ==
    "http://" \o b.kind \o "/" \o ToString(b.status) \o "/" \o ToString(b.latency)

----------------------------------------------------------------------------
(* Data *)

NoEndpoint == [Name |-> "", URL |-> ""]
NoResp == [status |-> 0, err |-> "none"]
NoResult == [Endpoint |-> NoEndpoint, IsHealthy |-> FALSE,
             StatusCode |-> 0, Duration |-> 0, Error |-> "unset"]
NoSummary == [count |-> -1, elapsed |-> -1]
NoClient == [Timeout |-> -1]

DefaultEndpoints ==
    << [Name |-> "Github API", URL |-> "https://api.github.com"],
       [Name |-> "JSONPlaceholder", URL |-> "https://jsonplaceholder.typicode.com/posts/1"],
       [Name |-> "Dog Breeds API", URL |-> "https://dog.ceo/api/breeds/list/all"] >>

CustomEndpoints(us) ==
    [i \in 1..Len(us) |-> [Name |-> "Custom-" \o ToString(i), URL |-> us[i]]]

\* Mutant: no fall-back to the default endpoints.
BuildEndpoints_NoDefaults(us) == CustomEndpoints(us)

\* Lines 70-87: custom URLs if provided, otherwise the defaults.
BuildEndpoints(us) ==
    IF Len(us) > 0 THEN CustomEndpoints(us) ELSE DefaultEndpoints

Units == 1..Len(server)

----------------------------------------------------------------------------
(* net/http as checkEndpoint uses it *)

\* Mutant: the client is built without its Timeout.
HasDeadline_Never(t) == FALSE

\* http.Client{Timeout: time.Duration(timeout) * time.Second}: a Timeout that
\* is not positive means no deadline.
HasDeadline(t) == t > 0

\* Whether the server's answer (a response or a transport error) reaches the
\* client before the client's deadline.
Arrives(b, t) == b.kind # "hang" /\ (~HasDeadline(t) \/ b.latency < t)

\* Whether client.Get ever returns.
Returns(b, t) == Arrives(b, t) \/ HasDeadline(t)

\* resp, err := client.Get(endpoint.URL), and the seconds it takes.
ClientGet(b, t) ==
    IF Arrives(b, t)
    THEN [status |-> b.status, err |-> b.error, after |-> b.latency]
    ELSE [status |-> 0, err |-> "Client.Timeout exceeded", after |-> t]

\* Mutant: the upper comparison slips to <=.
isHealthy_Upto400(statusCode) == statusCode >= 200 /\ statusCode <= 400

\* isHealthy := resp.StatusCode >= 200 && resp.StatusCode < 400
isHealthy(statusCode) == statusCode >= 200 /\ statusCode < 400

\* checkEndpoint from the return of client.Get on: r is (resp, err).
checkEndpoint(endpoint, r, duration) ==
    IF r.err # "nil"
    THEN [Endpoint |-> endpoint, IsHealthy |-> FALSE, StatusCode |-> 0,
          Duration |-> duration, Error |-> r.err]
    ELSE [Endpoint |-> endpoint, IsHealthy |-> isHealthy(r.status),
          StatusCode |-> r.status, Duration |-> duration, Error |-> "nil"]

----------------------------------------------------------------------------
(* Initial states *)

InitRun ==
    /\ endpoints = <<>>
    /\ pcMain = "execute"
    /\ next = 1
    /\ wg = 0
    /\ runStart = 0
    /\ pc = [i \in Units |-> "idle"]
    /\ start = [i \in Units |-> 0]
    /\ resp = [i \in Units |-> NoResp]
    /\ ep = [i \in Units |-> NoEndpoint]
    /\ result = [i \in Units |-> NoResult]
    /\ printed = <<>>
    /\ summary = NoSummary
    /\ exitCode = -1
    /\ now = 0
    /\ client = [i \in Units |-> NoClient]
    /\ gets = [i \in Units |-> 0]
    /\ body = [i \in Units |-> "none"]
    /\ conn = [i \in Units |-> "none"]
    /\ stdout = <<>>
    /\ line = [i \in Units |-> 0]

\* A command line cobra rejects: runCheck never runs.
InitInvalid ==
    /\ invocation = "invalid"
    /\ timeout = DefaultTimeout
    /\ urls = <<>>
    /\ server = <<>>

\* A valid command line: any timeout, and either --urls (the servers behind
\* them behaving in any way) or no --urls (the servers behind the default
\* endpoints behaving in any way).
InitValid(B, lengths) ==
    /\ invocation = "valid"
    /\ timeout \in 0..MaxTimeout
    /\ \E n \in lengths :
          IF n = 0
          THEN /\ server \in [1..Len(DefaultEndpoints) -> B]
               /\ urls = <<>>
          ELSE /\ server \in [1..n -> B]
               /\ urls = [i \in 1..n |-> UrlOf(server[i])]

Init == (InitInvalid \/ InitValid(Behaviours, 0..MaxUrls)) /\ InitRun

\* Runs whose servers differ in timing only.
InitTiming == (InitInvalid \/ InitValid(TimingBehaviours, 0..MaxUrls)) /\ InitRun

\* Runs against --urls whose servers answer promptly with any status code.
InitStatus == (InitInvalid \/ InitValid(WideBehaviours, 1..MaxUrls)) /\ InitRun

\* The scenario of spec section 8: A answers 200 after 50 time units, B answers
\* 500 after 10, C never answers; the timeout is 200.
ScenarioServers == <<Responding(200, 50), Responding(500, 10), Hanging>>

InitScenario ==
    /\ invocation = "valid"
    /\ timeout = 200
    /\ server = ScenarioServers
    /\ urls = [i \in 1..Len(ScenarioServers) |-> UrlOf(ScenarioServers[i])]
    /\ InitRun

----------------------------------------------------------------------------
(* Main goroutine: Execute and runCheck *)

\* rootCmd.Execute() fails on the command line: fmt.Println(err); os.Exit(1).
ExecuteInvalid ==
    /\ pcMain = "execute"
    /\ invocation = "invalid"
    /\ exitCode' = 1
    /\ pcMain' = "exited"
    /\ UNCHANGED <<invocation, timeout, urls, server, endpoints, next, wg,
                   runStart, pc, start, resp, ep, result, printed, summary, now,
                   client, gets, body, conn, stdout, line>>

\* runCheck up to the range loop: start := time.Now() and the endpoint list.
RunCheckStart ==
    /\ pcMain = "execute"
    /\ invocation = "valid"
    /\ runStart' = now
    /\ endpoints' = BuildEndpoints(urls)
    /\ next' = 1
    /\ pcMain' = IF Len(endpoints') = 0 THEN "wait" ELSE "spawn"
    /\ UNCHANGED <<invocation, timeout, urls, server, wg, pc, start, resp, ep,
                   result, printed, summary, exitCode, now,
                   client, gets, body, conn, stdout, line>>

\* Mutant: the goroutine reads the loop variable instead of taking the
\* endpoint as its argument, and sees the last endpoint of the list.
Spawn_SharedLoopVar ==
    /\ pcMain = "spawn"
    /\ next <= Len(endpoints)
    /\ wg' = wg + 1
    /\ pc' = [pc EXCEPT ![next] = "ready"]
    /\ ep' = [ep EXCEPT ![next] = endpoints[Len(endpoints)]]
    /\ next' = next + 1
    /\ pcMain' = IF next = Len(endpoints) THEN "wait" ELSE "spawn"
    /\ UNCHANGED <<invocation, timeout, urls, server, endpoints, runStart,
                   start, resp, result, printed, summary, exitCode, now,
                   client, gets, body, conn, stdout, line>>

\* Mutant: wg.Add(1) is missing.
Spawn_NoAdd ==
    /\ pcMain = "spawn"
    /\ next <= Len(endpoints)
    /\ wg' = wg
    /\ pc' = [pc EXCEPT ![next] = "ready"]
    /\ ep' = [ep EXCEPT ![next] = endpoints[next]]
    /\ next' = next + 1
    /\ pcMain' = IF next = Len(endpoints) THEN "wait" ELSE "spawn"
    /\ UNCHANGED <<invocation, timeout, urls, server, endpoints, runStart,
                   start, resp, result, printed, summary, exitCode, now,
                   client, gets, body, conn, stdout, line>>

\* One iteration of the range loop: wg.Add(1); go func(ep Endpoint){...}(endpoint).
Spawn ==
    /\ pcMain = "spawn"
    /\ next <= Len(endpoints)
    /\ wg' = wg + 1
    /\ pc' = [pc EXCEPT ![next] = "ready"]
    /\ ep' = [ep EXCEPT ![next] = endpoints[next]]
    /\ next' = next + 1
    /\ pcMain' = IF next = Len(endpoints) THEN "wait" ELSE "spawn"
    /\ UNCHANGED <<invocation, timeout, urls, server, endpoints, runStart,
                   start, resp, result, printed, summary, exitCode, now,
                   client, gets, body, conn, stdout, line>>

\* Mutant: the wait also ends as soon as one probe has failed (fail fast).
WgWait_FailFast ==
    /\ pcMain = "wait"
    /\ \/ wg = 0
       \/ \E i \in Units : result[i].Error \notin {"nil", "unset"}
    /\ pcMain' = "summary"
    /\ UNCHANGED <<invocation, timeout, urls, server, endpoints, next, wg,
                   runStart, pc, start, resp, ep, result, printed, summary,
                   exitCode, now,
                   client, gets, body, conn, stdout, line>>

\* wg.Wait() returns.
WgWait ==
    /\ pcMain = "wait"
    /\ wg = 0
    /\ pcMain' = "summary"
    /\ UNCHANGED <<invocation, timeout, urls, server, endpoints, next, wg,
                   runStart, pc, start, resp, ep, result, printed, summary,
                   exitCode, now,
                   client, gets, body, conn, stdout, line>>

\* Mutant: the summary counts the --urls flag instead of the endpoint list.
SummaryCount_Urls == Len(urls)

\* The count the summary line reports.
SummaryCount == Len(endpoints)

\* fmt.Println("Health check complete", len(endpoints), time.Since(start)).
PrintSummary ==
    /\ pcMain = "summary"
    /\ summary' = [count |-> SummaryCount, elapsed |-> now - runStart]
    /\ pcMain' = "return"
    /\ UNCHANGED <<invocation, timeout, urls, server, endpoints, next, wg,
                   runStart, pc, start, resp, ep, result, printed, exitCode, now,
                   client, gets, body, conn, stdout, line>>

\* Mutant: an unhealthy endpoint is reported as the command's error.
RunError_Unhealthy ==
    IF \E i \in Units : ~result[i].IsHealthy THEN "check failed" ELSE "nil"

\* The error rootCmd.Execute() returns once runCheck has returned: runCheck is
\* the command's Run (not RunE) and returns nothing.
RunError == "nil"

\* Execute after runCheck returned: os.Exit(1) on an error, else main returns.
ExecuteReturn ==
    /\ pcMain = "return"
    /\ exitCode' = IF RunError # "nil" THEN 1 ELSE 0
    /\ pcMain' = "exited"
    /\ UNCHANGED <<invocation, timeout, urls, server, endpoints, next, wg,
                   runStart, pc, start, resp, ep, result, printed, summary, now,
                   client, gets, body, conn, stdout, line>>

----------------------------------------------------------------------------
(* Probe goroutine i: checkEndpoint(ep); printResult(result); wg.Done() *)

\* Whether the request gets a connection to the server: not for a URL the
\* transport rejects, nor for a refused connection.
ConnOpened(b) == b.kind \in {"respond", "hang"}

\* Mutant: probes share one client and go out one at a time.
StartProbe_Serial(i) ==
    /\ pc[i] = "ready"
    /\ \A j \in Units : j < i => pc[j] = "done"
    /\ start' = [start EXCEPT ![i] = now]
    /\ client' = [client EXCEPT ![i] = [Timeout |-> timeout]]
    /\ gets' = [gets EXCEPT ![i] = @ + 1]
    /\ conn' = [conn EXCEPT ![i] = IF ConnOpened(server[i]) THEN "open" ELSE "none"]
    /\ pc' = [pc EXCEPT ![i] = "waiting"]
    /\ UNCHANGED <<invocation, timeout, urls, server, endpoints, pcMain, next,
                   wg, runStart, resp, ep, result, printed, summary, exitCode,
                   now, body, stdout, line>>

\* Mutant: the probe stores the timeout it used back into the flag variable,
\* rounded up to one second.
StartProbe_WritesTimeout(i) ==
    /\ pc[i] = "ready"
    /\ start' = [start EXCEPT ![i] = now]
    /\ timeout' = IF timeout > 0 THEN timeout ELSE 1
    /\ client' = [client EXCEPT ![i] = [Timeout |-> timeout']]
    /\ gets' = [gets EXCEPT ![i] = @ + 1]
    /\ conn' = [conn EXCEPT ![i] = IF ConnOpened(server[i]) THEN "open" ELSE "none"]
    /\ pc' = [pc EXCEPT ![i] = "waiting"]
    /\ UNCHANGED <<invocation, urls, server, endpoints, pcMain, next,
                   wg, runStart, resp, ep, result, printed, summary, exitCode,
                   now, body, stdout, line>>

\* checkEndpoint up to client.Get: start := time.Now(); the client is built
\* with the timeout flag; the request goes out.
StartProbe(i) ==
    /\ pc[i] = "ready"
    /\ start' = [start EXCEPT ![i] = now]
    /\ client' = [client EXCEPT ![i] = [Timeout |-> timeout]]
    /\ gets' = [gets EXCEPT ![i] = @ + 1]
    /\ conn' = [conn EXCEPT ![i] = IF ConnOpened(server[i]) THEN "open" ELSE "none"]
    /\ pc' = [pc EXCEPT ![i] = "waiting"]
    /\ UNCHANGED <<invocation, timeout, urls, server, endpoints, pcMain, next,
                   wg, runStart, resp, ep, result, printed, summary, exitCode,
                   now, body, stdout, line>>

\* A response that carries no body.
NoBody(statusCode) == statusCode \in {204, 304}

\* Mutant: the response body is never closed.
BodyAtReturn_NotClosed(r) == IF r.err = "nil" THEN "open" ELSE "none"

\* resp.Body when checkEndpoint returns: no response on the error path;
\* otherwise the deferred resp.Body.Close() has run.
BodyAtReturn(r) == IF r.err = "nil" THEN "closed" ELSE "none"

\* The request's connection when checkEndpoint returns.  On an error the
\* transport has torn down what it had opened.  With the body closed, the
\* connection of a response read in full (one without a body) goes back to
\* the idle pool of http.DefaultTransport and stays open there; a body closed
\* unread closes the connection.  A body left open keeps its connection.
ConnAtReturn(r, b, c) ==
    IF r.err # "nil" THEN (IF c = "open" THEN "closed" ELSE c)
    ELSE IF b = "open" THEN "open"
    ELSE IF NoBody(r.status) THEN "idle"
    ELSE "closed"

\* client.Get returns; duration := time.Since(start); the HealthResult is
\* built and checkEndpoint returns (its deferred calls run).
GetReturns(i) ==
    /\ pc[i] = "waiting"
    /\ Returns(server[i], client[i].Timeout)
    /\ LET g == ClientGet(server[i], client[i].Timeout)
           r == [status |-> g.status, err |-> g.err]
       IN /\ now - start[i] = g.after
          /\ resp' = [resp EXCEPT ![i] = r]
          /\ result' = [result EXCEPT ![i] = checkEndpoint(ep[i], r, now - start[i])]
          /\ body' = [body EXCEPT ![i] = BodyAtReturn(r)]
          /\ conn' = [conn EXCEPT ![i] = ConnAtReturn(r, body'[i], conn[i])]
    /\ pc' = [pc EXCEPT ![i] = "print"]
    /\ UNCHANGED <<invocation, timeout, urls, server, endpoints, pcMain, next,
                   wg, runStart, start, ep, printed, summary, exitCode, now,
                   client, gets, stdout, line>>

\* The lines printResult writes for a result, one fmt.Printf/Println each:
\* the status line, the URL line, the error line or the status-code and
\* response-time lines, and a blank line.
Block(r) ==
    LET status == IF ~r.IsHealthy THEN "UNHEALTHY" ELSE "HEALTHY"
    IN IF r.Error # "nil"
       THEN <<status, "URL", "Error", "blank">>
       ELSE <<status, "URL", "Status", "Response Time", "blank">>

\* One fmt.Printf/Println of printResult(result): the next line of the block
\* goes to stdout; after the last one the outcome is surfaced.
PrintLine(i) ==
    /\ pc[i] = "print"
    /\ LET b == Block(result[i])
           k == line[i] + 1
       IN /\ stdout' = Append(stdout, [unit |-> i, text |-> b[k]])
          /\ line' = [line EXCEPT ![i] = k]
          /\ IF k = Len(b)
             THEN /\ printed' = Append(printed, [unit |-> i, result |-> result[i]])
                  /\ pc' = [pc EXCEPT ![i] = "finish"]
             ELSE UNCHANGED <<printed, pc>>
    /\ UNCHANGED <<invocation, timeout, urls, server, endpoints, pcMain, next,
                   wg, runStart, start, resp, ep, result, summary, exitCode, now,
                   client, gets, body, conn>>

\* Mutant: the result lives in one variable the goroutines share, so the
\* block printed is that of any result returned so far.
PrintResult_SharedResult(i) ==
    /\ pc[i] = "print"
    /\ line[i] = 0
    /\ \E j \in Units :
          /\ pc[j] \in {"print", "finish", "done"}
          /\ LET b == Block(result[j])
             IN /\ stdout' = stdout \o [k \in 1..Len(b) |-> [unit |-> i, text |-> b[k]]]
                /\ line' = [line EXCEPT ![i] = Len(b)]
          /\ printed' = Append(printed, [unit |-> i, result |-> result[j]])
    /\ pc' = [pc EXCEPT ![i] = "finish"]
    /\ UNCHANGED <<invocation, timeout, urls, server, endpoints, pcMain, next,
                   wg, runStart, start, resp, ep, result, summary, exitCode, now,
                   client, gets, body, conn>>

\* printResult(result) as one step: the whole block goes to stdout at once.
\* The step-by-step version is PrintLine.
PrintResult(i) ==
    /\ pc[i] = "print"
    /\ line[i] = 0
    /\ LET b == Block(result[i])
       IN /\ stdout' = stdout \o [k \in 1..Len(b) |-> [unit |-> i, text |-> b[k]]]
          /\ line' = [line EXCEPT ![i] = Len(b)]
    /\ printed' = Append(printed, [unit |-> i, result |-> result[i]])
    /\ pc' = [pc EXCEPT ![i] = "finish"]
    /\ UNCHANGED <<invocation, timeout, urls, server, endpoints, pcMain, next,
                   wg, runStart, start, resp, ep, result, summary, exitCode, now,
                   client, gets, body, conn>>

\* Mutant: wg.Done() is not deferred and the error path returns without it.
WgDone_SkippedOnError(i) ==
    /\ pc[i] = "finish"
    /\ wg' = IF result[i].Error = "nil" THEN wg - 1 ELSE wg
    /\ pc' = [pc EXCEPT ![i] = "done"]
    /\ UNCHANGED <<invocation, timeout, urls, server, endpoints, pcMain, next,
                   runStart, start, resp, ep, result, printed, summary,
                   exitCode, now, client, gets, body, conn, stdout, line>>

\* The deferred wg.Done().
WgDone(i) ==
    /\ pc[i] = "finish"
    /\ wg' = wg - 1
    /\ pc' = [pc EXCEPT ![i] = "done"]
    /\ UNCHANGED <<invocation, timeout, urls, server, endpoints, pcMain, next,
                   runStart, start, resp, ep, result, printed, summary,
                   exitCode, now, client, gets, body, conn, stdout, line>>

----------------------------------------------------------------------------
(* Time *)

Main == ExecuteInvalid \/ RunCheckStart \/ Spawn \/ WgWait \/ PrintSummary
            \/ ExecuteReturn

Unit(i) == StartProbe(i) \/ GetReturns(i) \/ PrintResult(i) \/ WgDone(i)

\* Where the clock stops: past every deadline of the run.
Horizon == IF timeout + 1 > MaxTime THEN timeout + 1 ELSE MaxTime

\* A second passes.  Only while some request is in flight and nothing else
\* can run; the clock stops at the horizon.
Tick ==
    /\ \E i \in Units : pc[i] = "waiting"
    /\ ~ENABLED (Main \/ \E i \in Units : Unit(i) \/ PrintLine(i))
    /\ now < Horizon
    /\ now' = now + 1
    /\ UNCHANGED <<invocation, timeout, urls, server, endpoints, pcMain, next,
                   wg, runStart, pc, start, resp, ep, result, printed, summary,
                   exitCode,
                   client, gets, body, conn, stdout, line>>

Next ==
    \/ ExecuteInvalid
    \/ RunCheckStart
    \/ Spawn
    \/ WgWait
    \/ PrintSummary
    \/ ExecuteReturn
    \/ \E i \in Units : StartProbe(i)
    \/ \E i \in Units : GetReturns(i)
    \/ \E i \in Units : PrintResult(i)
    \/ \E i \in Units : WgDone(i)
    \/ Tick

Spec == Init /\ [][Next]_vars

\* The Go scheduler runs every runnable goroutine and the clock advances:
\* the process does not stop while a step is possible.
FairSpec == InitTiming /\ [][Next]_vars /\ WF_vars(Next)

\* Runs whose servers answer with any status code.
SpecStatus == InitStatus /\ [][Next]_vars

\* printResult taken one fmt.Printf at a time.
NextLines ==
    \/ ExecuteInvalid
    \/ RunCheckStart
    \/ Spawn
    \/ WgWait
    \/ PrintSummary
    \/ ExecuteReturn
    \/ \E i \in Units : StartProbe(i)
    \/ \E i \in Units : GetReturns(i)
    \/ \E i \in Units : PrintLine(i)
    \/ \E i \in Units : WgDone(i)
    \/ Tick

\* Runs against --urls of every timing, printResult line by line.
InitLines == (InitInvalid \/ InitValid(TimingBehaviours, 1..MaxUrls)) /\ InitRun

SpecLines == InitLines /\ [][NextLines]_vars

\* The runs of Spec and the scenario of spec section 8.
SpecElapsed == (Init \/ InitScenario) /\ [][Next]_vars

----------------------------------------------------------------------------
(* Properties *)

\* checkEndpoint has returned in goroutine i.
Returned(i) == pc[i] \in {"print", "finish", "done"}

\* Goroutine i's outcome is on stdout.
Surfaced(i) == \E k \in DOMAIN printed : printed[k].unit = i

\* wg.Wait() has returned in runCheck.
PastWait == invocation = "valid" /\ pcMain \in {"summary", "return", "exited"}

\* The summary line is on stdout.
Reported == invocation = "valid" /\ pcMain \in {"return", "exited"}

\* C1: once wg.Wait() has returned, every endpoint of the list has exactly
\* one outcome on stdout (none dropped, none duplicated), no goroutine is
\* still pending, and the count the summary line reports is the number of
\* outcomes surfaced.
C1_Cardinality ==
    /\ PastWait =>
          /\ Len(printed) = Len(endpoints)
          /\ \A i \in 1..Len(endpoints) :
                Cardinality({k \in DOMAIN printed : printed[k].unit = i}) = 1
          /\ \A i \in Units : pc[i] = "done"
    /\ Reported => summary.count = Len(printed)

C1_Witness ==
    /\ Reported
    /\ Len(printed) = Len(DefaultEndpoints)
    /\ summary.count = Len(DefaultEndpoints)
    /\ \E i, j \in Units : result[i].IsHealthy /\ result[j].Error # "nil"

\* C2: the dispatcher is a join barrier: it is past wg.Wait() only when every
\* goroutine has surfaced its outcome and finished; while any goroutine is
\* unfinished the dispatcher has not proceeded, whatever the others returned.
C2_JoinBarrier ==
    /\ PastWait => \A i \in Units : Surfaced(i) /\ pc[i] = "done"
    /\ (\E i \in Units : pc[i] # "done") => pcMain \in {"execute", "spawn", "wait"}

C2_Witness ==
    /\ pcMain = "summary"
    /\ \E i, j \in Units :
          /\ result[i].Error \notin {"nil", "unset"}
          /\ result[j].IsHealthy
          /\ result[i].Duration < result[j].Duration

\* C3: every outcome checkEndpoint produced has exactly one of StatusCode
\* (non-zero) and Error (non-nil), and is never healthy with Error set.
C3_ExactlyOne ==
    \A i \in Units :
        Returned(i) =>
            /\ (result[i].StatusCode # 0) # (result[i].Error # "nil")
            /\ result[i].Error # "nil" => ~result[i].IsHealthy

\* C4: classification is a fixed function of the response received: the
\* outcome carries the response's status code, no error, and is healthy
\* exactly for 200 <= status < 400 (404 unhealthy, 204 healthy), the same for
\* every probe that received the same response.
C4_Classification ==
    /\ \A i \in Units :
          (Returned(i) /\ resp[i].err = "nil") =>
              /\ result[i].StatusCode = resp[i].status
              /\ result[i].Error = "nil"
              /\ result[i].IsHealthy
                    = (200 <= resp[i].status /\ resp[i].status < 400)
              /\ resp[i].status = 404 => ~result[i].IsHealthy
              /\ resp[i].status = 204 => result[i].IsHealthy
    /\ \A i, j \in Units :
          (Returned(i) /\ Returned(j) /\ resp[i] = resp[j]) =>
              /\ result[i].IsHealthy = result[j].IsHealthy
              /\ result[i].StatusCode = result[j].StatusCode
              /\ result[i].Error = result[j].Error

C4_Witness ==
    \E i, j \in Units :
        /\ Returned(i) /\ Returned(j)
        /\ resp[i] = [status |-> 404, err |-> "nil"]
        /\ result[i].StatusCode = 404 /\ ~result[i].IsHealthy
        /\ resp[j] = [status |-> 204, err |-> "nil"]
        /\ result[j].StatusCode = 204 /\ result[j].IsHealthy

\* C5: with a positive timeout, a probe of a server that never answers does
\* not wait past the timeout; it returns when the timeout expires, with Error
\* set, StatusCode zero and IsHealthy false, and the run still exits 0.
C5_TimeoutBound ==
    timeout > 0 =>
        \A i \in Units :
            server[i].kind = "hang" =>
                /\ pc[i] = "waiting" => now - start[i] <= timeout
                /\ Returned(i) =>
                      /\ result[i].Duration = timeout
                      /\ result[i].Error # "nil"
                      /\ result[i].StatusCode = 0
                      /\ ~result[i].IsHealthy
                /\ pcMain = "exited" => exitCode = 0

C5_Witness ==
    /\ timeout > 0
    /\ pcMain = "exited"
    /\ \E i \in Units :
          /\ server[i].kind = "hang"
          /\ pc[i] = "done"
          /\ result[i].Error = "Client.Timeout exceeded"

\* C6 as stated: under fair scheduling every run terminates, whatever the
\* endpoints do.
C6_AlwaysTerminates == <>(pcMain = "exited")

\* C6 amended: with a positive timeout, under fair scheduling every probe
\* goroutine eventually finishes and the process eventually exits.
C6_TerminatesWithTimeout ==
    (timeout > 0) => <>(pcMain = "exited" /\ \A i \in Units : pc[i] = "done")

C6_Witness ==
    /\ timeout > 0
    /\ invocation = "valid"
    /\ pcMain = "exited"
    /\ \E i, j \in Units :
          /\ server[i].kind = "hang" /\ pc[i] = "done"
          /\ server[j].kind = "respond" /\ result[j].Error = "nil"

\* C7: probes are independent: a goroutine that can take a step is never
\* held back by another goroutine, every probe starts when the run starts,
\* and its outcome (IsHealthy, StatusCode, Error, Duration) is what its own
\* server's behaviour and the timeout give, whatever the other probes do.
C7_Independence ==
    \A i \in Units :
        /\ pc[i] = "ready" => ENABLED StartProbe(i)
        /\ (/\ pc[i] = "waiting"
            /\ Returns(server[i], timeout)
            /\ now - start[i] = ClientGet(server[i], timeout).after)
              => ENABLED GetReturns(i)
        /\ pc[i] = "print" => ENABLED PrintResult(i)
        /\ pc[i] = "finish" => ENABLED WgDone(i)
        /\ pc[i] \notin {"idle", "ready"} => start[i] = runStart
        /\ Returned(i) =>
              LET g == ClientGet(server[i], timeout)
              IN /\ result[i].Duration = g.after
                 /\ result[i].Error = g.err
                 /\ result[i].StatusCode = g.status
                 /\ result[i].IsHealthy
                       = (g.err = "nil" /\ 200 <= g.status /\ g.status < 400)
                 /\ (server[i].kind = "respond" /\ Arrives(server[i], timeout)) =>
                       /\ result[i].StatusCode = server[i].status
                       /\ result[i].Duration = server[i].latency

C7_Witness ==
    \E i, j \in Units :
        /\ server[i].kind = "hang" /\ pc[i] = "waiting"
        /\ server[j].kind = "respond" /\ pc[j] = "done"
        /\ result[j].IsHealthy
        /\ result[j].Duration = server[j].latency

\* C8 as stated: with an empty list supplied by the caller, no probe
\* goroutine is launched and no outcome is surfaced.
C8_EmptyInput ==
    (invocation = "valid" /\ urls = <<>>) =>
        /\ \A i \in Units : pc[i] = "idle"
        /\ printed = <<>>

\* C8 amended: with an empty --urls the run falls back to the default
\* endpoints: the endpoint list is the three defaults, each is handed to one
\* goroutine, and three outcomes are surfaced before the summary.
C8_EmptyUsesDefaults ==
    (invocation = "valid" /\ urls = <<>> /\ pcMain # "execute") =>
        /\ endpoints = DefaultEndpoints
        /\ PastWait =>
              /\ Len(printed) = Len(DefaultEndpoints)
              /\ \A i \in 1..Len(DefaultEndpoints) :
                    ep[i] = DefaultEndpoints[i] /\ Surfaced(i)
        /\ Reported => summary.count = Len(DefaultEndpoints)

C8_Witness ==
    /\ invocation = "valid"
    /\ urls = <<>>
    /\ pcMain = "exited"
    /\ Len(printed) = Len(DefaultEndpoints)

C10_ReadmeExitCodes ==
    pcMain = "exited" =>
        exitCode = IF /\ invocation = "valid"
                      /\ \A i \in Units : result[i].IsHealthy
                   THEN 0
                   ELSE 1

\* The largest and the sum of the probes' durations.
RECURSIVE SumDurations(_)
SumDurations(n) == IF n = 0 THEN 0 ELSE result[n].Duration + SumDurations(n - 1)

MaxDuration ==
    CHOOSE d \in {result[i].Duration : i \in Units} :
        \A i \in Units : result[i].Duration <= d

InScenario == server = ScenarioServers /\ timeout = 200

\* C11: probes run in parallel: the elapsed time the summary reports is the
\* largest probe duration, not the sum of the durations; in the scenario
\* (A 200 after 50, B 500 after 10, C silent, timeout 200) the run yields
\* three outcomes, A healthy/200, B unhealthy/500, C unhealthy with a timeout
\* error, and the elapsed time is 200, not 260.
C11_ElapsedIsMax ==
    Reported =>
        /\ summary.elapsed = MaxDuration
        /\ (\E i, j \in Units :
               i # j /\ result[i].Duration > 0 /\ result[j].Duration > 0)
              => summary.elapsed < SumDurations(Len(server))
        /\ InScenario =>
              /\ Len(printed) = 3
              /\ result[1].IsHealthy /\ result[1].StatusCode = 200
              /\ result[1].Error = "nil" /\ result[1].Duration = 50
              /\ ~result[2].IsHealthy /\ result[2].StatusCode = 500
              /\ result[2].Error = "nil" /\ result[2].Duration = 10
              /\ ~result[3].IsHealthy /\ result[3].StatusCode = 0
              /\ result[3].Error = "Client.Timeout exceeded"
              /\ result[3].Duration = 200
              /\ summary.elapsed = 200
              /\ SumDurations(3) = 260

C11_Witness ==
    /\ Reported
    /\ InScenario
    /\ summary.elapsed = 200
    /\ summary.count = 3

\* C12 as stated: when checkEndpoint has returned, neither the response body
\* nor the connection its request opened is still open; once the run is
\* past the wait no response body is open.
C12_AllReleased ==
    /\ \A i \in Units :
          Returned(i) => (body[i] # "open" /\ conn[i] \notin {"open", "idle"})
    /\ PastWait => Cardinality({i \in Units : body[i] = "open"}) = 0

\* C12 amended: when checkEndpoint has returned, on the response path and on
\* the error path alike, its response body is not open and its connection is
\* no longer in use by the probe (closed, or idle in the transport's pool);
\* once the run is past the wait no response body is open.
C12_BodiesClosed ==
    /\ \A i \in Units :
          Returned(i) =>
              /\ body[i] = IF resp[i].err = "nil" THEN "closed" ELSE "none"
              /\ conn[i] # "open"
    /\ PastWait => Cardinality({i \in Units : body[i] = "open"}) = 0

C12_Witness ==
    /\ PastWait
    /\ \E i, j, k \in Units :
          /\ resp[i].err = "nil" /\ body[i] = "closed" /\ conn[i] = "closed"
          /\ resp[j].err = "nil" /\ body[j] = "closed" /\ conn[j] = "idle"
          /\ resp[k].err = "Client.Timeout exceeded" /\ body[k] = "none"
          /\ conn[k] = "closed"

\* C13: each endpoint of the list is handed to exactly one goroutine (list
\* position i to goroutine i, none skipped once the loop is over), is probed
\* with exactly one client.Get, and yields exactly one outcome, whose
\* Endpoint field is that endpoint, also when URLs repeat in the list.
C13_OneToOne ==
    /\ \A i \in Units :
          /\ pc[i] # "idle" => (i <= Len(endpoints) /\ ep[i] = endpoints[i])
          /\ gets[i] = IF pc[i] \in {"idle", "ready"} THEN 0 ELSE 1
          /\ Returned(i) => result[i].Endpoint = endpoints[i]
    /\ pcMain \notin {"execute", "spawn"} /\ invocation = "valid" =>
          \A i \in 1..Len(endpoints) : pc[i] # "idle"
    /\ \A k \in DOMAIN printed :
          printed[k].result.Endpoint = endpoints[printed[k].unit]
    /\ PastWait =>
          \A i \in 1..Len(endpoints) :
              Cardinality({k \in DOMAIN printed :
                              printed[k].result.Endpoint = endpoints[i]
                              /\ printed[k].unit = i}) = 1

C13_Witness ==
    /\ PastWait
    /\ Len(endpoints) >= 2
    /\ endpoints[1].URL = endpoints[2].URL
    /\ \A i \in Units : gets[i] = 1
    /\ \E k, l \in DOMAIN printed :
          /\ printed[k].result.Endpoint = endpoints[1]
          /\ printed[l].result.Endpoint = endpoints[2]

\* The outcome goroutine i surfaces, as a function of the run's inputs alone
\* (the endpoint list, the servers' behaviour, the timeout).
OutcomeOf(i) ==
    LET g == ClientGet(server[i], timeout)
    IN [unit |-> i,
        result |-> [Endpoint |-> endpoints[i],
                    IsHealthy |-> g.err = "nil" /\ 200 <= g.status /\ g.status < 400,
                    StatusCode |-> g.status,
                    Duration |-> g.after,
                    Error |-> g.err]]

\* The positions of printed in increasing order of goroutine.
InInputOrder ==
    \A k, l \in DOMAIN printed : k < l => printed[k].unit < printed[l].unit

\* C14: the outcomes surfaced are, at any time, outcomes fixed by the run's
\* inputs, and by the end of the run their set is the same whatever the
\* interleaving and order of completion; the dispatcher completes whether or
\* not the outcomes came in input order.
C14_OrderInsensitive ==
    /\ \A k \in DOMAIN printed : printed[k] = OutcomeOf(printed[k].unit)
    /\ PastWait =>
          {printed[k] : k \in DOMAIN printed} = {OutcomeOf(i) : i \in Units}
    /\ (pcMain = "wait" /\ wg = 0) => ENABLED WgWait

C14_Witness ==
    /\ Reported
    /\ ~InInputOrder
    /\ Len(printed) = Len(DefaultEndpoints)
    /\ printed[1].unit = Len(DefaultEndpoints)
    /\ {printed[k] : k \in DOMAIN printed} = {OutcomeOf(i) : i \in Units}

\* The positions of stdout that hold goroutine i's lines.
LinesOf(i) == {k \in DOMAIN stdout : stdout[k].unit = i}

\* C15: the block printResult writes for one outcome is contiguous on
\* stdout: the lines of one goroutine occupy consecutive positions, so the
\* blocks of two endpoints never interleave.
C15_BlocksContiguous ==
    \A i \in Units :
        \A k, l \in LinesOf(i) :
            \A m \in k..l : stdout[m].unit = i

\* C16: probe goroutines share no mutable state: a step of goroutine i
\* leaves the timeout flag, the --urls flag, the endpoint list and every
\* other goroutine's endpoint, client and outcome as they were; and every
\* client is built with the timeout the caller supplied.
C16_NoSharedWrites ==
    /\ [](\A i \in Units :
             pc[i] \notin {"idle", "ready"} => client[i].Timeout = timeout)
    /\ [][\A i \in Units :
             Unit(i) =>
                 /\ timeout' = timeout
                 /\ urls' = urls
                 /\ endpoints' = endpoints
                 /\ \A j \in Units \ {i} :
                       /\ ep'[j] = ep[j]
                       /\ client'[j] = client[j]
                       /\ resp'[j] = resp[j]
                       /\ result'[j] = result[j]]_vars

C16_Witness ==
    /\ timeout > 0
    /\ \E i, j \in Units :
          /\ i # j
          /\ Returned(i) /\ client[i].Timeout = timeout
          /\ pc[j] = "waiting" /\ client[j].Timeout = timeout
          /\ result[j] = NoResult

\* C17: WaitGroup discipline: in every state the counter is the number of
\* goroutines launched and not yet finished (wg.Add(1) comes with the launch,
\* wg.Done() once, after the outcome is surfaced, on the error path too); it
\* is never negative; and while an endpoint is yet to be launched or a
\* goroutine is still running, wg.Wait() cannot return.
C17_WaitGroup ==
    /\ wg = Cardinality({i \in Units : pc[i] \in {"ready", "waiting", "print", "finish"}})
    /\ wg >= 0
    /\ \A i \in Units : pc[i] = "done" => Surfaced(i)
    /\ (\E i \in Units : pc[i] # "done") => ~ENABLED WgWait
    /\ (pcMain = "spawn" /\ next <= Len(endpoints)) => ~ENABLED WgWait

C17_Witness ==
    /\ pcMain = "wait"
    /\ wg = 1
    /\ \E i, j \in Units :
          /\ pc[i] = "done" /\ result[i].Error \notin {"nil", "unset"}
          /\ pc[j] = "finish"

====
